---- MODULE Spec2Model ----
(***************************************************************************)
(* A model of environment-builder's ReferenceEnvironmentProvider           *)
(* (src/src/lib.rs).                                                       *)
(*                                                                         *)
(* Numbers.  An f64 of the program is an integer in units of 1/ONE         *)
(* (fixed point).  An angle is an integer in units of 2*pi/TWO_PI.         *)
(* A coordinate or field value that depends on the probe distance d of     *)
(* get_gradient is a pair <<c, f>>: c is the part that does not depend on  *)
(* d (units 1/ONE) and f the coefficient of d (units 1/FINE), so           *)
(* <<c, f>> stands for c/ONE + d*f/FINE and every field is evaluated to    *)
(* first order in d (the program uses d = 1e-9 and d = 1e-5).              *)
(* The non-finite f64 values are the integers Inf, -Inf and NaN, and       *)
(* f64::MAX is F64_MAX; no finite value of the model reaches them.         *)
(***************************************************************************)
EXTENDS Integers, Sequences, FiniteSets, TLC

\* ------------------------------------------------------------ numbers

\* 1.0 in fixed point.
ONE == 10 * 10 * 10

\* The unit of the coefficient of d: 1.0 is FINE.
FINE == ONE * 100

\* 2*pi in angle units (15 arc seconds each): divisible by 2*(n-1)^3 for
\* n - 1 in 1..4 and by 2*15^2, so every angle get_gradient samples with
\* those sample counts is exact.
TWO_PI == 86400

\* pi in fixed point (std::f64::consts::PI).
PI == 3142

F64_MAX == 2^30 - 1

Inf == 2^30

NaN == 0 - 2^30 - 7

IsFinite(v) == v # Inf /\ v # 0 - Inf /\ v # NaN

Abs(a) == IF a < 0 THEN 0 - a ELSE a

Max(a, b) == IF a >= b THEN a ELSE b

Min(a, b) == IF a <= b THEN a ELSE b

\* f64::signum: 1.0 for +0.0 and every positive number, -1.0 for negatives.
Signum(a) == IF a < 0 THEN 0 - 1 ELSE 1

\* a / b rounded toward zero (b # 0).
Div(a, b) ==
    IF b < 0
    THEN (IF a >= 0 THEN 0 - (a \div (0 - b)) ELSE (0 - a) \div (0 - b))
    ELSE (IF a >= 0 THEN a \div b ELSE 0 - ((0 - a) \div b))

\* a * b of two fixed-point numbers.
Mul(a, b) == Div(a * b, ONE)

\* let v = value; Body(v): the value is computed once, before the body.
Bind(value, Body(_)) == CHOOSE r \in {Body(v) : v \in {value}} : TRUE

RECURSIVE LongDivDigits(_, _, _, _)
LongDivDigits(r, den, acc, k) ==
    IF k = 0 THEN acc
    ELSE LongDivDigits((r * 10) % den, den, acc * 10 + ((r * 10) \div den), k - 1)

\* floor(num * 10^k / den) for 0 <= num, 0 < den, without overflow.
LongDiv(num, den, k) == LongDivDigits(num % den, den, num \div den, k)

RECURSIVE SqrtSearch(_, _, _)
SqrtSearch(n, lo, hi) ==
    IF lo >= hi THEN lo
    ELSE LET mid == (lo + hi + 1) \div 2
         IN  IF mid * mid <= n THEN SqrtSearch(n, mid, hi)
             ELSE SqrtSearch(n, lo, mid - 1)

\* floor(sqrt(n)) for 0 <= n < 2^30.
ISqrt(n) == SqrtSearch(n, 0, 32767)

\* f64::sqrt of a fixed-point number.
Sqrt(a) == ISqrt(a * ONE)

\* ------------------------------------------------------- trigonometry

\* sin of an angle in 0..TWO_PI \div 2, in units of 1/FINE (Bhaskara's
\* rational approximation: exact at 0, pi/6, pi/2, 5pi/6 and pi, symmetric
\* about pi/2 and strictly increasing up to pi/2).
SinHalfTurn(a) ==
    LET H == TWO_PI \div 2
        p == a * (H - a)
        den == (5 * (H \div 4) * (H \div 4)) - (p \div 4)
    IN  LongDiv(p \div 4, den \div 4, 5)

\* f64::sin of an angle, in units of 1/FINE.
SinFine(a) ==
    LET r == a % TWO_PI
        H == TWO_PI \div 2
    IN  IF r <= H THEN SinHalfTurn(r) ELSE 0 - SinHalfTurn(r - H)

\* f64::cos of an angle, in units of 1/FINE.
CosFine(a) == SinFine(a + (TWO_PI \div 4))

\* f64::sin and f64::cos of an angle, in fixed point.
Sin(a) == Div(SinFine(a), FINE \div ONE)

Cos(a) == Div(CosFine(a), FINE \div ONE)

\* The angle of a fixed-point number of radians.
RadToAngle(r) == Div(r * TWO_PI, 2 * PI)

\* The angle of x * pi / k for a fixed-point x.
PiTimes(x, k) == Div(x * (TWO_PI \div 2), k * ONE)

\* f64::tan of an angle, in fixed point; next to pi/2 the f64 is huge and
\* finite (tan(pi/2) = 1.6e16), here 2000.
Tan(a) ==
    LET s == Sin(a)
        c == Cos(a)
    IN  IF c = 0 THEN Signum(s) * 2000 * ONE
        ELSE Max(0 - 2000 * ONE, Min(2000 * ONE, Div(s * ONE, c)))

\* atan of a fixed-point z with |z| <= 1, in fixed-point radians
\* (z / (1 + 0.28 z^2)).
AtanUnit(z) == Div(z * ONE, ONE + Div(280 * Mul(z, z), ONE))

\* f64::atan of a fixed-point number, as an angle.
Atan(z) ==
    IF Abs(z) <= ONE THEN RadToAngle(AtanUnit(z))
    ELSE Signum(z) * (TWO_PI \div 4) - RadToAngle(AtanUnit(Div(ONE * ONE, z)))

\* --------------------------------------------------- first-order pairs

\* x + dx where dx = cos_or_sin * d: the d-free part x and the coefficient
\* of d.
Probe(x, coeff) == <<x, coeff>>

\* The comparison turned round: value > min_value.
LessReversed(v, w) == w[1] < v[1] \/ (w[1] = v[1] /\ w[2] < v[2])

\* value < min_value of two f64 that differ at most to first order in d.
Less(v, w) == v[1] < w[1] \/ (v[1] = w[1] /\ v[2] < w[2])

\* x / scale for a pair.
PairDiv(x, scale) == <<Div(x[1] * ONE, scale), Div(x[2] * ONE, scale)>>

\* ------------------------------------------------------ configuration

NOISE_PRIMITIVE_CONTINENT == 0

NOISE_PRIMITIVE_PERSISTENCE == 1

NOISE_PRIMITIVE_LAND == 2

NOISE_OCEAN_CURRENT == 3

NOISE_ATMOSPHERE_PRESSURE == 4

NOISE_END == 10

\* The layers get_primitive_elevation_factors and get_factors sample.
UsedLayers ==
    {NOISE_PRIMITIVE_CONTINENT, NOISE_PRIMITIVE_PERSISTENCE, NOISE_PRIMITIVE_LAND,
     NOISE_OCEAN_CURRENT, NOISE_ATMOSPHERE_PRESSURE}

ValueRange(min, max) == [min |-> min, max |-> max]

\* ReferenceEnvironmentParameters::default().  The three boxed closures are
\* named; ApplyValidFn, ApplyVirtualLatitudeFn and ApplyTemperatureSurfaceFn
\* call them.  primitive_elevation_range is in metres, not in 1/ONE.
DefaultParameters ==
    [primitive_shelf_scale |-> ONE,
     primitive_shelf_power |-> ONE \div 2,
     primitive_shelf_depth |-> 300,
     primitive_persistence_range |-> ValueRange(200, 800),
     primitive_persistence_scale |-> 300,
     primitive_land_scale |-> ONE,
     primitive_land_power |-> 2 * ONE,
     primitive_elevation_range |-> ValueRange(0 - 5000, 5000),
     ocean_current_scale |-> 800,
     ocean_current_elevation_effect_distance |-> 300,
     virtual_latitude_fn |-> "default",
     valid_fn |-> "default",
     temperature_surface_fn |-> "default",
     gradient_sample_num |-> 16,
     gradient_iteration |-> 2,
     atmosphere_pressure_scale |-> ONE,
     atmosphere_pressure_noise_prop |-> 200]

\* (self.params.valid_fn)(x, y): the default |y| < 1.0 and two other
\* predicates a caller may configure.
ApplyValidFn(fn, x, y) ==
    CASE fn = "default" -> Abs(y) < ONE
      [] fn = "all" -> TRUE
      [] fn = "x_nonneg" -> x >= 0

\* (self.params.virtual_latitude_fn)(x, y): the default sin(y * pi / 4) and
\* a longitude-dependent one; a non-finite coordinate gives NaN.
ApplyVirtualLatitudeFn(fn, x, y) ==
    IF ~IsFinite(x) \/ ~IsFinite(y) THEN NaN
    ELSE CASE fn = "default" -> Sin(PiTimes(y, 4))
           [] fn = "tilted" -> Sin(PiTimes(y + Div(x, 2), 4))

\* (self.params.temperature_surface_fn)(lat): the default
\* 30 * (1 - sin(|lat|) * 3) and a linear one; NaN gives NaN.
ApplyTemperatureSurfaceFn(fn, lat) ==
    IF ~IsFinite(lat) THEN NaN
    ELSE CASE fn = "default" -> 30 * (ONE - Sin(RadToAngle(Abs(lat))) * 3)
           [] fn = "linear" -> 30 * ONE - 40 * Abs(lat)

\* ------------------------------------------------------------- noise

\* libnoise's Simplex<2> generator of a seed: a deterministic field with
\* values in [-1, 1] and a bounded slope.  The model's generator is a
\* triangle wave along the direction (SimplexSlopeX, SimplexSlopeY) through
\* SimplexBase at the origin; a seed with both slopes 0 is a constant field.
SimplexBase(seed) == ((seed % 5) - 2) * (ONE \div 2)

SimplexSlope(k) == CASE k = 0 -> 0 [] k = 1 -> ONE [] k = 2 -> 0 - ONE

SimplexSlopeX(seed) == SimplexSlope(seed % 3)

SimplexSlopeY(seed) == SimplexSlope((seed \div 3) % 3)

\* Source::simplex(seed).sample([x, y]) at a pair point: the value and its
\* coefficient of d.
SimplexSample(seed, x, y) ==
    LET gx == SimplexSlopeX(seed)
        gy == SimplexSlopeY(seed)
        t == SimplexBase(seed) + Div(gx * x[1] + gy * y[1], ONE)
        u == (t + ONE) % (4 * ONE)
        rising == u <= 2 * ONE
        lin == Div(gx * x[2] + gy * y[2], ONE)
    IN  IF rising THEN <<u - ONE, lin>> ELSE <<3 * ONE - u, 0 - lin>>

\* value += sample * amplitude
AddOctave(value, s, amplitude) ==
    <<value[1] + Mul(s[1], amplitude), value[2] + Div(s[2] * amplitude, ONE)>>

RECURSIVE NoiseOctaves(_, _, _, _, _, _, _, _, _, _)
\* for _ in 0..octaves, with k octaves left, and then value / max_value.
NoiseOctaves(self, x, y, k, persistence, idx, value, amplitude, frequency, max_value) ==
    IF k = 0
    THEN <<Div(value[1] * ONE, max_value), Div(value[2] * ONE, max_value)>>
    ELSE Bind(SimplexSample(self.noises[idx + 1],
                            <<x[1] * frequency, x[2] * frequency>>,
                            <<y[1] * frequency, y[2] * frequency>>),
              LAMBDA s :
         Bind(AddOctave(value, s, amplitude), LAMBDA v :
         Bind(Mul(amplitude, persistence), LAMBDA a :
         Bind(max_value + amplitude, LAMBDA m :
              NoiseOctaves(self, x, y, k - 1, persistence, idx, v, a,
                           frequency * 2, m)))))

\* get_noise(&self, x, y, octaves, persistence, idx), octaves >= 1, at a
\* pair point.
get_noise(self, x, y, octaves, persistence, idx) ==
    IF idx >= Len(self.noises) THEN <<0, 0>>
    ELSE Bind(x, LAMBDA xv : Bind(y, LAMBDA yv : Bind(persistence, LAMBDA pv :
              NoiseOctaves(self, xv, yv, octaves, pv, idx, <<0, 0>>, ONE, 1, 0))))

\* --------------------------------------------------------- elevation

\* ValueWithNormalized::from_normalized (value in the unit of the range).
from_normalized(normalized, range) ==
    [value |-> range.min + Div(normalized * (range.max - range.min), ONE),
     normalized |-> normalized]

\* f64::powf for the exponents 0.5, 1.0 and 2.0 of a base >= 0.
Powf(base, exponent) ==
    CASE exponent = ONE \div 2 -> Sqrt(base)
      [] exponent = ONE -> base
      [] exponent = 2 * ONE -> Mul(base, base)

\* The shelf of a continent-noise sample n.
primitive_shelf(params, n) ==
    Mul(Mul(Powf(Abs(n), params.primitive_shelf_power), Signum(n) * ONE) - ONE,
        params.primitive_shelf_depth)

\* The persistence of a persistence-noise sample n.
\* The persistence without the remap of the sample from [-1, 1] to [0, 1].
primitive_persistence_unmapped(params, n) ==
    from_normalized(n, params.primitive_persistence_range)

primitive_persistence(params, n) ==
    from_normalized(Div(n, 2) + (ONE \div 2), params.primitive_persistence_range)

\* The land base of a land-noise sample n.
primitive_land_base(n) == Abs(n)

\* primitive_land_base + primitive_shelf, raised to primitive_land_power
\* when positive.
primitive_elevation_normalized(params, land_base, shelf) ==
    IF land_base + shelf > 0
    THEN Powf(land_base + shelf, params.primitive_land_power)
    ELSE land_base + shelf

\* get_primitive_elevation_factors(&self, x, y).
get_primitive_elevation_factors(self, x, y) ==
    Bind(self.params, LAMBDA p :
    Bind(primitive_shelf(p,
             get_noise(self, PairDiv(<<x, 0>>, p.primitive_shelf_scale),
                       PairDiv(<<y, 0>>, p.primitive_shelf_scale),
                       3, ONE \div 2, NOISE_PRIMITIVE_CONTINENT)[1]),
         LAMBDA shelf :
    Bind(primitive_persistence(p,
             get_noise(self, PairDiv(<<x, 0>>, p.primitive_persistence_scale),
                       PairDiv(<<y, 0>>, p.primitive_persistence_scale),
                       3, ONE \div 2, NOISE_PRIMITIVE_PERSISTENCE)[1]),
         LAMBDA persistence :
    Bind(primitive_land_base(
             get_noise(self, PairDiv(<<x, 0>>, p.primitive_land_scale),
                       PairDiv(<<y, 0>>, p.primitive_land_scale),
                       8, persistence.value, NOISE_PRIMITIVE_LAND)[1]),
         LAMBDA land_base :
         [shelf |-> shelf,
          persistence |-> persistence,
          land_base |-> land_base,
          elevation |-> from_normalized(
              primitive_elevation_normalized(p, land_base, shelf),
              p.primitive_elevation_range)]))))

\* ------------------------------------------------ non-finite arithmetic

\* a * b of two f64 in fixed point: inf * 0 is NaN.
FMul(a, b) ==
    IF a = NaN \/ b = NaN THEN NaN
    ELSE IF IsFinite(a) /\ IsFinite(b) THEN Mul(a, b)
    ELSE IF a = 0 \/ b = 0 THEN NaN
    ELSE IF (a > 0) = (b > 0) THEN Inf ELSE 0 - Inf

\* a / b of two f64 in fixed point, b finite and not 0.
FDiv(a, b) ==
    IF a = NaN THEN NaN
    ELSE IF IsFinite(a) THEN Div(a * ONE, b)
    ELSE IF (a > 0) = (b > 0) THEN Inf ELSE 0 - Inf

\* a + b of two f64 in fixed point, a finite.
FAdd(a, b) == IF IsFinite(b) THEN a + b ELSE b

\* ------------------------------------------------------------ fields

\* The closure ocean_current_noise of get_factors.
OceanCurrentField == [kind |-> "ocean_current_noise", gx |-> 0, gy |-> 0]

\* The closure atmosphere_pressure_normalized_func of get_factors.
AtmospherePressureField == [kind |-> "atmosphere_pressure", gx |-> 0, gy |-> 0]

\* A synthetic field f(x, y) = gx * x + gy * y handed to get_gradient.
LinearField(gx, gy) == [kind |-> "linear", gx |-> gx, gy |-> gy]

\* ocean_current_noise(x, y).
ocean_current_noise(self, x, y) ==
    get_noise(self, PairDiv(x, self.params.ocean_current_scale),
              PairDiv(y, self.params.ocean_current_scale), 1, 0, NOISE_OCEAN_CURRENT)

\* base * (1 - prop) + noise * prop of two pairs.
Blend(base, noise, prop) ==
    <<Mul(base[1], ONE - prop) + Mul(noise[1], prop),
      Div(base[2] * (ONE - prop), ONE) + Div(noise[2] * prop, ONE)>>

\* -cos(2 pi y) / 2 + 0.5 of a pair y; its slope is pi * sin(2 pi y).
PressureBand(y) ==
    Bind(PiTimes(2 * y[1], 1), LAMBDA a :
         <<Div(0 - Cos(a), 2) + (ONE \div 2), Div(Mul(PI, Sin(a)) * y[2], ONE)>>)

\* atmosphere_pressure_normalized_func(x, y).
atmosphere_pressure_normalized_func(self, x, y) ==
    Bind(PressureBand(y), LAMBDA base :
    Bind(get_noise(self, PairDiv(x, self.params.atmosphere_pressure_scale),
                   PairDiv(y, self.params.atmosphere_pressure_scale),
                   1, ONE \div 2, NOISE_ATMOSPHERE_PRESSURE),
         LAMBDA noise :
         Blend(base, noise, self.params.atmosphere_pressure_noise_prop)))

\* noise_fn(x, y) of get_gradient.
ApplyField(self, field, x, y) ==
    CASE field.kind = "ocean_current_noise" -> ocean_current_noise(self, x, y)
      [] field.kind = "atmosphere_pressure" ->
             atmosphere_pressure_normalized_func(self, x, y)
      [] field.kind = "linear" ->
             <<field.gx * x[1] + field.gy * y[1], field.gx * x[2] + field.gy * y[2]>>

\* ---------------------------------------------------------- gradient

\* let stp = (range.1 - range.0) / (gradient_sample_num - 1) as f64
\* (gradient_sample_num = 1, where stp is infinite, is in no parameter set
\* of the model).
GradientStep(range, sample_num) == Div(range[2] - range[1], sample_num - 1)

\* The angle of sample i.
SampleAngle(range, stp, i) == range[1] + stp * i

\* noise_fn(x + dx, y + dy) for the sample at an angle.
SampleValue(self, x, y, field, angle) ==
    Bind(Probe(x, CosFine(angle)), LAMBDA px :
    Bind(Probe(y, SinFine(angle)), LAMBDA py :
         ApplyField(self, field, px, py)))

RECURSIVE GradientSamplesButLast(_, _, _, _, _, _, _, _, _)
\* The sampling loop run as for i in 0..gradient_sample_num - 1.
GradientSamplesButLast(self, x, y, field, range, stp, i, min_value, min_angle) ==
    IF i >= self.params.gradient_sample_num - 1
    THEN [min_value |-> min_value, min_angle |-> min_angle]
    ELSE Bind(SampleAngle(range, stp, i), LAMBDA angle :
         Bind(SampleValue(self, x, y, field, angle), LAMBDA value :
              IF Less(value, min_value)
              THEN GradientSamplesButLast(self, x, y, field, range, stp, i + 1,
                                          value, angle)
              ELSE GradientSamplesButLast(self, x, y, field, range, stp, i + 1,
                                          min_value, min_angle)))

RECURSIVE GradientSamples(_, _, _, _, _, _, _, _, _)
\* for i in 0..gradient_sample_num, from sample i on:
\* if value < min_value { min_value = value; min_angle = angle; }
GradientSamples(self, x, y, field, range, stp, i, min_value, min_angle) ==
    IF i >= self.params.gradient_sample_num
    THEN [min_value |-> min_value, min_angle |-> min_angle]
    ELSE Bind(SampleAngle(range, stp, i), LAMBDA angle :
         Bind(SampleValue(self, x, y, field, angle), LAMBDA value :
              IF Less(value, min_value)
              THEN GradientSamples(self, x, y, field, range, stp, i + 1, value, angle)
              ELSE GradientSamples(self, x, y, field, range, stp, i + 1,
                                   min_value, min_angle)))

\* The range narrowed to a whole step on either side of min_angle.
NarrowRangeWholeStep(min_angle, stp) == <<min_angle - stp, min_angle + stp>>

\* range = (min_angle - stp * 0.5, min_angle + stp * 0.5)
NarrowRange(min_angle, stp) == <<min_angle - Div(stp, 2), min_angle + Div(stp, 2)>>

\* One pass of the loop over gradient_iteration: the minimum kept, the step
\* and the next range.
GradientIteration(self, x, y, field, range) ==
    Bind(GradientStep(range, self.params.gradient_sample_num), LAMBDA stp :
    Bind(GradientSamples(self, x, y, field, range, stp, 0, <<F64_MAX, 0>>, 0),
         LAMBDA best :
         [min_value |-> best.min_value,
          min_angle |-> best.min_angle,
          stp |-> stp,
          range |-> NarrowRange(best.min_angle, stp)]))

RECURSIVE GradientLoop(_, _, _, _, _, _, _, _)
\* for _ in 0..gradient_iteration, with k passes left.
GradientLoop(self, x, y, field, k, range, final_angle, final_value) ==
    IF k = 0 THEN [final_angle |-> final_angle, final_value |-> final_value]
    ELSE Bind(GradientIteration(self, x, y, field, range), LAMBDA it :
              GradientLoop(self, x, y, field, k - 1, it.range, it.min_angle,
                           it.min_value))

\* let diff = (final_value - value) / d.  After a pass that sampled, the
\* d-free parts of final_value and value are equal and diff is the
\* coefficient of d; f64::MAX (no sample was below it) gives +inf.
\* (gradient_iteration = 0 is in no parameter set of the model.)
GradientDiff(self, x, y, field, final_value) ==
    IF final_value[1] = F64_MAX THEN Inf
    ELSE Div(final_value[2] * ONE, FINE)

\* get_gradient(&self, x, y, d, noise_fn) -> (final_angle, diff).  The
\* result is to first order in d, so d itself does not occur.
get_gradient(self, x, y, field) ==
    Bind(GradientLoop(self, x, y, field, self.params.gradient_iteration,
                      <<0, TWO_PI>>, 0, <<0, 0>>),
         LAMBDA fin :
         <<fin.final_angle, GradientDiff(self, x, y, field, fin.final_value)>>)

\* create_vector_field_noise(&self, x, y, noise_fn, angle_offset, dist_grad).
create_vector_field_noise(self, x, y, field, angle_offset) ==
    Bind(get_gradient(self, x, y, field), LAMBDA g : <<g[1] + angle_offset, g[2]>>)

\* ------------------------------------------------------- get_factors

\* 2.0 * (pnmg1d * pnmg1d * 2.0).sqrt() with pnmg1d = 30.0 / 8.0.
perlin_noise_max_gradient ==
    LET pnmg1d == Div(30 * ONE, 8)
    IN  2 * Sqrt(Mul(pnmg1d, pnmg1d) * 2)

\* ocean_current_diff * (1.0 - elevation.normalized.max(0.0))
\*     / perlin_noise_max_gradient * ocean_current_scale
ocean_current_magnitude(params, diff, elevation_normalized) ==
    FMul(FDiv(FMul(diff, ONE - Max(elevation_normalized, 0)),
              perlin_noise_max_gradient),
         params.ocean_current_scale)

\* temperature_surface with the offset not scaled by the current's magnitude.
temperature_surface_unscaled(params, x, y, angle, magnitude) ==
    Bind(params.ocean_current_elevation_effect_distance, LAMBDA dist :
         ApplyTemperatureSurfaceFn(params.temperature_surface_fn,
             ApplyVirtualLatitudeFn(params.virtual_latitude_fn,
                                    FAdd(x, Mul(Cos(angle), dist)),
                                    FAdd(y, Mul(Sin(angle), dist)))))

\* The block computing temperature_surface.
temperature_surface(params, x, y, angle, magnitude) ==
    Bind(params.ocean_current_elevation_effect_distance, LAMBDA dist :
    Bind(FMul(Mul(Cos(angle), dist), magnitude), LAMBDA dx :
    Bind(FMul(Mul(Sin(angle), dist), magnitude), LAMBDA dy :
         ApplyTemperatureSurfaceFn(params.temperature_surface_fn,
             ApplyVirtualLatitudeFn(params.virtual_latitude_fn,
                                    FAdd(x, dx), FAdd(y, dy))))))

\* -(((y + 0.5) * PI).tan().abs() * (y * PI).sin()).atan()
WindDeflection(y) ==
    0 - Atan(Mul(Abs(Tan(PiTimes(y + (ONE \div 2), 1))), Sin(PiTimes(y, 1))))

\* The state the body of get_factors reads: the provider alone.
FactorsOf(self, x, y) ==
    Bind(self.params, LAMBDA p :
    Bind(get_primitive_elevation_factors(self, x, y), LAMBDA elev :
    Bind(create_vector_field_noise(self, x, y, OceanCurrentField, TWO_PI \div 8),
         LAMBDA ocean :
    Bind(ocean_current_magnitude(p, ocean[2], elev.elevation.normalized),
         LAMBDA ocean_mag :
    Bind(create_vector_field_noise(self, x, y, AtmospherePressureField,
                                   WindDeflection(y)),
         LAMBDA wind :
         [virtual_latitude |-> ApplyVirtualLatitudeFn(p.virtual_latitude_fn, x, y),
          temperature_surface |-> temperature_surface(p, x, y, ocean[1], ocean_mag),
          atmosphere_pressure_normalized |->
              atmosphere_pressure_normalized_func(self, <<x, 0>>, <<y, 0>>)[1],
          atmosphere_current_angle |-> wind[1],
          atmosphere_current_magnitude |-> FDiv(wind[2], PI),
          primitive_elevation_factors |-> elev,
          ocean_current_angle |-> ocean[1],
          ocean_current_magnitude |-> ocean_mag])))))

\* Option<EnvironmentFactors>: None is <<>> and Some(f) is <<f>>.
None == <<>>

Some(f) == <<f>>

\* get_factors without the validity check.
get_factors_unchecked(self, x, y) == Some(FactorsOf(self, x, y))

\* get_factors(&self, x, y).
get_factors(self, x, y) ==
    IF ~ApplyValidFn(self.params.valid_fn, x, y) THEN None
    ELSE Some(FactorsOf(self, x, y))

\* ------------------------------------------------------ the provider

\* new building generators for the layers below NOISE_ATMOSPHERE_PRESSURE only.
new_short(seeds, params) ==
    [noises |-> [i \in 1..NOISE_ATMOSPHERE_PRESSURE |->
                    IF seeds = None THEN i - 1 ELSE seeds[1][i]],
     params |-> params]

\* ReferenceEnvironmentProvider::new(seeds, params): one generator per layer
\* index below NOISE_END, seeded from seeds or, without seeds, by its index.
\* No parameter is looked at.
new(seeds, params) ==
    [noises |-> [i \in 1..NOISE_END |-> IF seeds = None THEN i - 1 ELSE seeds[1][i]],
     params |-> params]

\* gradient_sample_num <= 1, or a scale that get_factors divides by is 0.
Misconfigured(params) ==
    \/ params.gradient_sample_num <= 1
    \/ params.primitive_shelf_scale = 0
    \/ params.primitive_persistence_scale = 0
    \/ params.primitive_land_scale = 0
    \/ params.ocean_current_scale = 0
    \/ params.atmosphere_pressure_scale = 0

\* ------------------------------------------------------------ bounds

\* The calls made on one provider.
MaxCalls == 3

\* The passes of the gradient estimator run on its own.
MaxGradientIteration == 2

\* The seed arrays handed to new, beside None: constant continent and land
\* layers at 1 (full land), a continent layer at 0, and a mixed one.
SeedArrays ==
    {<<9, 1, 9, 3, 4, 5, 6, 7, 8, 9>>,
     <<27, 4, 2, 1, 3, 5, 6, 7, 8, 9>>,
     <<4, 9, 7, 5, 1, 5, 6, 7, 8, 9>>}

SeedOptions == {None} \cup {Some(a) : a \in SeedArrays}

\* The parameters handed to new: the default and records a caller may build
\* from it; sample_num = 0 is a misconfiguration.
ParameterSet ==
    {DefaultParameters,
     [DefaultParameters EXCEPT !.valid_fn = "all", !.gradient_sample_num = 4],
     [DefaultParameters EXCEPT !.valid_fn = "x_nonneg", !.gradient_sample_num = 3,
                               !.gradient_iteration = 1,
                               !.primitive_shelf_depth = ONE \div 2,
                               !.primitive_shelf_power = ONE,
                               !.primitive_persistence_range = ValueRange(0, ONE)],
     [DefaultParameters EXCEPT !.gradient_sample_num = 0],
     [DefaultParameters EXCEPT !.gradient_sample_num = 5,
                               !.primitive_land_power = ONE,
                               !.virtual_latitude_fn = "tilted",
                               !.temperature_surface_fn = "linear",
                               !.ocean_current_scale = ONE,
                               !.primitive_shelf_power = 2 * ONE]}

\* The coordinates queried.
Points == {<<0, 0>>, <<0 - 500, 300>>, <<0, ONE>>}

\* The <<octaves, persistence, idx>> of the direct get_noise calls: the last
\* layer index in range, NOISE_END and one beyond.
NoiseProbes ==
    {<<3, ONE \div 2, NOISE_END - 1>>, <<1, 0, NOISE_END>>, <<8, 800, NOISE_END + 2>>}

\* The sample counts and synthetic fields of the gradient estimator run on
\* its own: f = x, f = y, f = -x and two oblique fields.
GradientSampleNums == {2, 3, 4, 5}

\* <<gradient_sample_num, gradient_iteration>>: the small sample counts
\* with every number of passes, and the default 16 samples and 2 passes.
GradientConfigurations ==
    (GradientSampleNums \X (1..MaxGradientIteration))
        \cup {<<DefaultParameters.gradient_sample_num,
                DefaultParameters.gradient_iteration>>}

GradientFields ==
    {LinearField(1, 0), LinearField(0, 1), LinearField(0 - 1, 0),
     LinearField(1, 2), LinearField(1, 0 - 1)}

GradientPoints == {<<0, 0>>, <<0 - 500, 300>>, <<700, 0 - 1200>>}

\* ------------------------------------------------------------- state

\* The (seeds, params) pairs new is called with: every parameter record on
\* the default seeds, and every seed array under the default parameters and
\* under gradient_sample_num = 0.
Configurations ==
    {c \in SeedOptions \X ParameterSet :
        \/ c[1] = None
        \/ c[2] \in {DefaultParameters,
                     [DefaultParameters EXCEPT !.gradient_sample_num = 0]}}

VARIABLES
    provider,     \* None, or Some(the ReferenceEnvironmentProvider built by new)
    constructed,  \* history: the provider as new returned it
    log,          \* history: the calls made on the provider, with their results
    grad          \* the locals of a get_gradient call run pass by pass

vars == <<provider, constructed, log, grad>>

GradIdle ==
    [pc |-> "idle", x |-> 0, y |-> 0, field |-> LinearField(0, 0), pass |-> 0,
     range |-> <<0, TWO_PI>>, final_angle |-> 0, final_value |-> <<0, 0>>,
     stp |-> 0, diff |-> 0]

Init ==
    /\ provider = None
    /\ constructed = None
    /\ log = <<>>
    /\ grad = GradIdle

\* let provider = ReferenceEnvironmentProvider::new(seeds, params);
New(seeds, params) ==
    /\ provider = None
    /\ provider' = Some(new(seeds, params))
    /\ constructed' = provider'
    /\ UNCHANGED <<log, grad>>

\* get_factors on generators whose state advances with every call made.
GetFactorsCounting(x, y) ==
    /\ provider # None
    /\ Len(log) < MaxCalls
    /\ log' = Append(log, [op |-> "get_factors", args |-> <<x, y>>,
                           result |-> get_factors(
                               [provider[1] EXCEPT !.noises =
                                   [i \in DOMAIN @ |-> @[i] + Len(log)]], x, y)])
    /\ UNCHANGED <<provider, constructed, grad>>

\* get_factors reseeding the generators of the provider it is called on.
GetFactorsReseeding(x, y) ==
    /\ provider # None
    /\ Len(log) < MaxCalls
    /\ log' = Append(log, [op |-> "get_factors", args |-> <<x, y>>,
                           result |-> get_factors(provider[1], x, y)])
    /\ provider' = Some([provider[1] EXCEPT !.noises = [i \in DOMAIN @ |-> @[i] + 1]])
    /\ UNCHANGED <<constructed, grad>>

\* provider.get_factors(x, y): &self, so the provider is left as it is.
GetFactors(x, y) ==
    /\ provider # None
    /\ Len(log) < MaxCalls
    /\ log' = Append(log, [op |-> "get_factors", args |-> <<x, y>>,
                           result |-> get_factors(provider[1], x, y)])
    /\ UNCHANGED <<provider, constructed, grad>>

\* self.get_noise(x, y, octaves, persistence, idx) with any layer index.
GetNoise(x, y, octaves, persistence, idx) ==
    /\ provider # None
    /\ Len(log) < MaxCalls
    /\ log' = Append(log, [op |-> "get_noise", args |-> <<x, y, octaves, persistence, idx>>,
                           result |-> <<get_noise(provider[1], <<x, 0>>, <<y, 0>>,
                                                  octaves, persistence, idx)[1]>>])
    /\ UNCHANGED <<provider, constructed, grad>>

Next ==
    \/ \E c \in Configurations : New(c[1], c[2])
    \/ \E pt \in Points : GetFactors(pt[1], pt[2])
    \/ \E q \in NoiseProbes : GetNoise(0 - 500, 300, q[1], q[2], q[3])

Spec == Init /\ [][Next]_vars

\* ------------------------------------------ the gradient estimator alone

\* get_gradient(x, y, d, noise_fn) entered on a provider whose parameters
\* give the sample count and the number of passes.
InitGradient ==
    /\ \E c \in GradientConfigurations :
          provider = Some(new(None, [DefaultParameters EXCEPT
                                        !.gradient_sample_num = c[1],
                                        !.gradient_iteration = c[2]]))
    /\ constructed = provider
    /\ log = <<>>
    /\ \E pt \in GradientPoints, f \in GradientFields :
          grad = [GradIdle EXCEPT !.pc = "loop", !.x = pt[1], !.y = pt[2], !.field = f]

\* One pass of for _ in 0..self.params.gradient_iteration.
GradientPass ==
    /\ grad.pc = "loop"
    /\ grad.pass < provider[1].params.gradient_iteration
    /\ LET it == GradientIteration(provider[1], grad.x, grad.y, grad.field, grad.range)
       IN  grad' = [grad EXCEPT !.pass = @ + 1, !.range = it.range, !.stp = it.stp,
                                !.final_angle = it.min_angle,
                                !.final_value = it.min_value]
    /\ UNCHANGED <<provider, constructed, log>>

\* The loop is over: diff is computed and (final_angle, diff) returned.
GradientReturn ==
    /\ grad.pc = "loop"
    /\ grad.pass = provider[1].params.gradient_iteration
    /\ grad' = [grad EXCEPT !.pc = "done",
                            !.diff = GradientDiff(provider[1], grad.x, grad.y,
                                                  grad.field, grad.final_value)]
    /\ UNCHANGED <<provider, constructed, log>>

NextGradient == GradientPass \/ GradientReturn

SpecGradient == InitGradient /\ [][NextGradient]_vars

\* ------------------------------------------------------------ claims

\* The calls of the log made through an operation.
Calls(op) == {i \in 1..Len(log) : log[i].op = op}

\* The get_factors calls that returned Some.
SomeCalls == {i \in Calls("get_factors") : log[i].result # None}

\* The EnvironmentFactors call i returned.
Factors(i) == log[i].result[1]

\* C1: get_factors(x, y) returns None if and only if the configured validity
\* predicate is false at (x, y); with the default predicate that is exactly
\* when |y| >= 1, so get_factors(0, 1.0) is None and every |y| < 1 is Some.
C1_ValidityGating ==
    \A i \in Calls("get_factors") :
        LET fn == provider[1].params.valid_fn
            x == log[i].args[1]
            y == log[i].args[2]
        IN  /\ (log[i].result = None) <=> ~ApplyValidFn(fn, x, y)
            /\ fn = "default" => ((log[i].result = None) <=> (Abs(y) >= ONE))

\* C1's case: under the default predicate get_factors(0, 1.0) returned None
\* and a call with |y| < 1 returned Some.
C1_Witness ==
    /\ provider # None
    /\ provider[1].params.valid_fn = "default"
    /\ \E i \in Calls("get_factors") : log[i].args = <<0, ONE>> /\ log[i].result = None
    /\ \E i \in SomeCalls : Abs(log[i].args[2]) < ONE

\* C2: two get_factors calls with the same (x, y) on one provider return
\* identical results, whatever calls were made before or between them.
C2_Deterministic ==
    \A i \in Calls("get_factors"), j \in Calls("get_factors") :
        log[i].args = log[j].args => log[i].result = log[j].result

\* C2's case: the same valid point queried twice with another call between.
C2_Witness ==
    \E i \in SomeCalls, j \in SomeCalls :
        /\ j = i + 2
        /\ log[i].args = log[j].args
        /\ log[i + 1].args # log[i].args

\* The continent-noise sample get_primitive_elevation_factors takes at (x, y).
ContinentSample(self, x, y) ==
    get_noise(self, PairDiv(<<x, 0>>, self.params.primitive_shelf_scale),
              PairDiv(<<y, 0>>, self.params.primitive_shelf_scale),
              3, ONE \div 2, NOISE_PRIMITIVE_CONTINENT)[1]

\* C3: at every valid point the returned shelf lies in
\* [-primitive_shelf_depth, 0], and a continent-noise sample of exactly 0
\* with primitive_shelf_depth = 0.3 gives shelf = -0.3.
C3_ShelfWithinDepth ==
    \A i \in SomeCalls :
        LET self == provider[1]
            shelf == Factors(i).primitive_elevation_factors.shelf
        IN  /\ 0 - self.params.primitive_shelf_depth <= shelf
            /\ shelf <= 0
            /\ (/\ ContinentSample(self, log[i].args[1], log[i].args[2]) = 0
                /\ self.params.primitive_shelf_depth = 300)
                   => shelf = 0 - 300

\* C4: at every valid point persistence.normalized lies in [0, 1] and
\* persistence.value within primitive_persistence_range.
C4_PersistenceWithinRange ==
    \A i \in SomeCalls :
        LET range == provider[1].params.primitive_persistence_range
            persistence == Factors(i).primitive_elevation_factors.persistence
        IN  /\ 0 <= persistence.normalized /\ persistence.normalized <= ONE
            /\ range.min <= persistence.value /\ persistence.value <= range.max

\* C4's case: a valid point where the persistence sample is 1, so that
\* normalized is 1 and value is the top of the range, and another where
\* normalized is inside (0, 1).
C4_Witness ==
    /\ \E i \in SomeCalls :
          /\ Factors(i).primitive_elevation_factors.persistence.normalized = ONE
          /\ Factors(i).primitive_elevation_factors.persistence.value =
                 provider[1].params.primitive_persistence_range.max
    /\ \E i \in SomeCalls :
          /\ Factors(i).primitive_elevation_factors.persistence.normalized > 0
          /\ Factors(i).primitive_elevation_factors.persistence.normalized < ONE

\* The distance between two angles modulo 2 pi.
AngleDistance(a, b) == Min((a - b) % TWO_PI, TWO_PI - ((a - b) % TWO_PI))

RECURSIVE Power(_, _)
Power(b, k) == IF k = 0 THEN 1 ELSE b * Power(b, k - 1)

\* Half the angular step of the last pass: pi / (sample_num - 1)^iterations.
AngularResolution ==
    (TWO_PI \div 2) \div Power(provider[1].params.gradient_sample_num - 1,
                               provider[1].params.gradient_iteration)

\* C5 as stated: on f(x, y) = x the angle get_gradient returns is 0 modulo
\* 2 pi to within the angular resolution of sample_num and iterations.
C5_AngleIsZeroOnFieldX ==
    (grad.pc = "done" /\ grad.field = LinearField(1, 0))
        => AngleDistance(grad.final_angle, 0) <= AngularResolution

\* C5 amended: on f(x, y) = x the angle get_gradient returns is pi modulo
\* 2 pi (the direction of steepest descent) to within
\* pi / (sample_num - 1)^iterations, at every probe point.
C5_AngleIsPiOnFieldX ==
    (grad.pc = "done" /\ grad.field = LinearField(1, 0))
        => AngleDistance(grad.final_angle, TWO_PI \div 2) <= AngularResolution

\* C5's case: get_gradient returned on f(x, y) = x with the default 16
\* samples and 2 passes, away from the origin.
C5_Witness ==
    /\ grad.pc = "done"
    /\ grad.field = LinearField(1, 0)
    /\ grad.x # 0
    /\ provider[1].params.gradient_sample_num = 16
    /\ grad.pass = 2

\* C6: whenever elevation.normalized = 1 at a valid point, the returned
\* ocean_current_magnitude is 0.
C6_NoCurrentOnFullLand ==
    \A i \in SomeCalls :
        Factors(i).primitive_elevation_factors.elevation.normalized = ONE
            => Factors(i).ocean_current_magnitude = 0

\* The slope get_gradient finds for the ocean-current field at (x, y).
OceanCurrentDiff(self, x, y) == get_gradient(self, x, y, OceanCurrentField)[2]

\* C7: at every valid point where the slope of the ocean-current field is at
\* most perlin_noise_max_gradient / ocean_current_scale in absolute value,
\* the returned ocean_current_magnitude lies in [0, 1].
C7_MagnitudeInUnitInterval ==
    \A i \in SomeCalls :
        LET self == provider[1]
            diff == OceanCurrentDiff(self, log[i].args[1], log[i].args[2])
        IN  (/\ IsFinite(diff)
             /\ Abs(diff) * self.params.ocean_current_scale
                    <= perlin_noise_max_gradient * ONE)
                => /\ 0 <= Factors(i).ocean_current_magnitude
                   /\ Factors(i).ocean_current_magnitude <= ONE

\* Every f64 of the factors that a gradient feeds is finite.
FiniteFactors(f) ==
    /\ IsFinite(f.ocean_current_magnitude)
    /\ IsFinite(f.temperature_surface)
    /\ IsFinite(f.atmosphere_current_magnitude)

\* C8: a misconfigured provider is never constructed, so no get_factors call
\* runs with gradient_sample_num <= 1 or a zero scale, and none returns a
\* NaN or an infinity.
C8_MisconfigurationRejected ==
    \A i \in Calls("get_factors") :
        /\ ~Misconfigured(provider[1].params)
        /\ log[i].result # None => FiniteFactors(Factors(i))

\* C9: get_noise with a layer index >= the number of generators returns 0.0,
\* and every layer index get_factors uses is below the number of generators
\* new builds.
C9_OutOfRangeLayerIsZero ==
    /\ \A i \in Calls("get_noise") :
          log[i].args[5] >= Len(provider[1].noises) => log[i].result = <<0>>
    /\ provider # None => \A idx \in UsedLayers : idx < Len(provider[1].noises)

\* C9's case: get_noise was called with idx = NOISE_END and returned 0.0,
\* with the last index in range and returned a sample that is not 0, and
\* get_factors returned Some.
C9_Witness ==
    /\ \E i \in Calls("get_noise") : log[i].args[5] = NOISE_END /\ log[i].result = <<0>>
    /\ \E i \in Calls("get_noise") : log[i].args[5] < NOISE_END /\ log[i].result # <<0>>
    /\ SomeCalls # {}

SampledAngles(range, sample_num) ==
    {SampleAngle(range, GradientStep(range, sample_num), i) : i \in 0..(sample_num - 1)}

\* C11: a pass of the gradient estimator keeps one of the sample_num equally
\* spaced angles of the current range and leaves the range centred on it with
\* half-width half that pass's step; every angle the next pass samples lies
\* within half the previous step of the previous best angle, and the angle
\* returned is the best angle of the last pass.
C11_RangeNarrowing ==
    [][LET N == provider[1].params.gradient_sample_num
       IN  /\ grad'.pass = grad.pass + 1 =>
                 /\ grad'.stp = GradientStep(grad.range, N)
                 /\ grad'.final_angle \in SampledAngles(grad.range, N)
                 /\ grad'.range[2] + grad'.range[1] = 2 * grad'.final_angle
                 /\ 2 * (grad'.range[2] - grad'.range[1]) = 2 * grad'.stp
                 /\ grad.pass >= 1 =>
                       \A a \in SampledAngles(grad.range, N) :
                           2 * Abs(a - grad.final_angle) <= grad.stp
           /\ grad'.pc = "done" => grad'.final_angle = grad.final_angle]_vars

\* C11's case: a second pass ran with 4 samples, on a range a third of the
\* first one's step wide on either side of the angle it kept.
C11_Witness ==
    /\ grad.pc = "done"
    /\ grad.pass = 2
    /\ provider[1].params.gradient_sample_num = 4
    /\ grad.stp = (TWO_PI \div 3) \div 3
    /\ grad.range = <<grad.final_angle - grad.stp \div 2, grad.final_angle + grad.stp \div 2>>

\* C12 as stated: the minimum kept by a pass of the gradient estimator is
\* never greater than the minimum kept by the pass before it.
C12_MonotoneRefinement ==
    [][(grad'.pass = grad.pass + 1 /\ grad.pass >= 1)
          => ~(\/ grad.final_value[1] < grad'.final_value[1]
               \/ /\ grad.final_value[1] = grad'.final_value[1]
                  /\ grad.final_value[2] < grad'.final_value[2])]_vars

\* C12 amended: the minimum a pass keeps is the smallest field value among
\* the samples of that pass alone, taken at the angle it keeps, and the
\* value the slope is computed from is the one the last pass kept.
C12_MinimumOfLastPass ==
    [][/\ grad'.pass = grad.pass + 1 =>
             /\ grad'.final_value = SampleValue(provider[1], grad.x, grad.y, grad.field,
                                                grad'.final_angle)
             /\ \A a \in SampledAngles(grad.range, provider[1].params.gradient_sample_num) :
                   LET v == SampleValue(provider[1], grad.x, grad.y, grad.field, a)
                   IN  ~(\/ v[1] < grad'.final_value[1]
                         \/ v[1] = grad'.final_value[1] /\ v[2] < grad'.final_value[2])
       /\ grad'.pc = "done" =>
             /\ grad'.final_value = grad.final_value
             /\ grad'.diff = Div(grad.final_value[2] * ONE, FINE)]_vars

\* C12's case: on f(x, y) = -x with 16 samples the first pass samples angle
\* 0, the minimum of the field on the circle, and the second pass returned
\* with a greater minimum.
C12_Witness ==
    /\ grad.pc = "done"
    /\ grad.pass = 2
    /\ grad.field = LinearField(0 - 1, 0)
    /\ provider[1].params.gradient_sample_num = 16
    /\ grad.final_value[2] > 0 - FINE

\* C13: at every valid point the returned elevation.value lies within
\* primitive_elevation_range [min, max].
C13_ElevationWithinRange ==
    \A i \in SomeCalls :
        LET range == provider[1].params.primitive_elevation_range
            elevation == Factors(i).primitive_elevation_factors.elevation
        IN  range.min <= elevation.value /\ elevation.value <= range.max

\* C14: at every valid point the returned temperature_surface is
\* temperature_surface_fn(virtual_latitude_fn(x + dx, y + dy)) with
\* (dx, dy) = (cos, sin)(ocean_current_angle) * effect_distance *
\* ocean_current_magnitude of the returned angle and magnitude; where the
\* returned magnitude is 0 it is temperature_surface_fn of the returned
\* virtual_latitude.
C14_TemperatureAdvection ==
    \A i \in SomeCalls :
        LET p == provider[1].params
            f == Factors(i)
            dist == p.ocean_current_elevation_effect_distance
            dx == FMul(Mul(Cos(f.ocean_current_angle), dist), f.ocean_current_magnitude)
            dy == FMul(Mul(Sin(f.ocean_current_angle), dist), f.ocean_current_magnitude)
        IN  /\ f.temperature_surface =
                   ApplyTemperatureSurfaceFn(p.temperature_surface_fn,
                       ApplyVirtualLatitudeFn(p.virtual_latitude_fn,
                           FAdd(log[i].args[1], dx), FAdd(log[i].args[2], dy)))
            /\ f.ocean_current_magnitude = 0 =>
                   f.temperature_surface =
                       ApplyTemperatureSurfaceFn(p.temperature_surface_fn,
                                                 f.virtual_latitude)

\* C14's case: a call on full land returned magnitude 0 with a current
\* angle off the x axis, so that an offset not scaled by the magnitude would
\* have moved the latitude.
C14_Witness ==
    \E i \in SomeCalls :
        /\ Factors(i).primitive_elevation_factors.elevation.normalized = ONE
        /\ Factors(i).ocean_current_magnitude = 0
        /\ Sin(Factors(i).ocean_current_angle) # 0
        /\ Factors(i).temperature_surface =
               ApplyTemperatureSurfaceFn(provider[1].params.temperature_surface_fn,
                                         Factors(i).virtual_latitude)

====
